---- MODULE Spec2Model ----
(***************************************************************************)
(* Order fraud protection (server/lib/security/order): the threshold       *)
(* checks of validateStat, the per-subject checks checkIP, checkCreditCard,*)
(* checkUser and checkEmail, and the gate orderFraudProtection that runs   *)
(* them concurrently.                                                      *)
(*                                                                         *)
(* Every action is one turn of the JavaScript event loop: the synchronous  *)
(* code of a call or of the continuation of an await, together with the    *)
(* microtasks it schedules, up to the next await of a database promise.    *)
(* Strings are sequences of one-character strings; an absent (undefined,   *)
(* null or empty) value is the empty sequence.  Rates are whole numbers of *)
(* a fixed unit.                                                           *)
(***************************************************************************)
EXTENDS Integers, Sequences, FiniteSets, Bags, TLC

\* ------------------------------------------------------------------ bounds
MaxOrders == 2
MaxRate == 2
MaxTableRows == 2
MaxLoaderRows == 2
MaxKeys == 2

\* ------------------------------------------------------------ JS helpers
Truthy(v) == Len(v) > 0

Digits == <<"0", "1", "2", "3", "4", "5", "6", "7", "8", "9">>

RECURSIVE toString(_)
toString(n) ==
  IF n < 10 THEN <<Digits[n + 1]>>
  ELSE toString(n \div 10) \o <<Digits[(n % 10) + 1]>>

LowerChar(ch) ==
  CASE ch = "A" -> "a"
    [] ch = "B" -> "b"
    [] OTHER -> ch

toLower(s) == [i \in 1..Len(s) |-> LowerChar(s[i])]

RECURSIVE join(_, _)
join(parts, sep) ==
  IF Len(parts) = 0 THEN <<>>
  ELSE IF Len(parts) = 1 THEN parts[1]
  ELSE parts[1] \o sep \o join(Tail(parts), sep)

\* ------------------------------------------------------------ asset types
AssetType == [USER |-> "USER", CREDIT_CARD |-> "CREDIT_CARD", IP |-> "IP",
              EMAIL_ADDRESS |-> "EMAIL_ADDRESS"]

CheckNames == {"ip", "card", "user", "email"}

\* ------------------------------------------------------------------ state
VARIABLES
  ENFORCE_SUSPENDED_ASSET, \* config.fraud.enforceSuspendedAsset, read once
  fraudOrderConfig,        \* config.fraud.order: check name -> limit rules
  req,                     \* [remoteUser, ip] of the request
  order,                   \* [paymentMethod, guestInfo] of the order
  dbRows,                  \* aggregate rows the Orders table can answer with
  ordersTable,             \* Orders joined with PaymentMethods, when modelled
  suspendedBefore,         \* the assets in the store when the order arrived
  store,                   \* SuspendedAssets table: bag of [type, fingerprint]
  checks,                  \* the array of check promises, in push order
  pc,                      \* position of each check's validateStat call
  queries,                 \* per check: the statFn calls of assertLimit
  caught,                  \* per check: index of the rule whose rejection
                           \*   Promise.all rejected with (0: none)
  createCalls,             \* per check: assets passed to SuspendedAsset.create
  onFailResult,            \* per check: outcome of the awaited onFail promise
  checkError,              \* per check: kind of error the check rejected with
  orderState,              \* orderFraudProtection: init/pending/resolved/rejected
  orderError,              \* the error orderFraudProtection rejected with
  db,                      \* the tables the loaders' queries read, by kind
  loaded                   \* the batch a loader was called with and its result

vars == <<ENFORCE_SUSPENDED_ASSET, fraudOrderConfig, req, order, dbRows,
          ordersTable, suspendedBefore, store,
          checks, pc, queries, caught, createCalls, onFailResult, checkError,
          orderState, orderError, db, loaded>>

inputs == <<ENFORCE_SUSPENDED_ASSET, fraudOrderConfig, req, order, dbRows,
            ordersTable, suspendedBefore, db>>

\* ------------------------------------------------- makeStatLimitChecker
NoStat == [numberOfOrders |-> 0, errorRate |-> 0, paymentMethodRate |-> 0]

\* statFn(...args): every stat function is (subject, interval?), so the
\* interval it queries with is its second positional argument
statFnInterval(args) == IF Len(args) >= 2 THEN args[2] ELSE ""

statArray(stat) == <<stat.numberOfOrders, stat.errorRate, stat.paymentMethodRate>>

\* every with a strict comparison: a metric equal to its limit does not count
every_strict(limits, arr) ==
  \A index \in 1..Len(limits) : index <= Len(arr) /\ limits[index] < arr[index]

\* limits.every((limit, index) => limit <= statArray[index])
every(limits, arr) ==
  \A index \in 1..Len(limits) : index <= Len(arr) /\ limits[index] <= arr[index]

\* const [interval, ...limits] = limitParams
ruleInterval(limitParams) == Head(limitParams)
ruleLimits(limitParams) == Tail(limitParams)

statLimitFail(stat, limitParams) == every(ruleLimits(limitParams), statArray(stat))

\* limitParams.map(assertLimit) up to each await: every call pushes its
\* interval on the one shared args array and then calls statFn(...args)
RECURSIVE mapAssertLimit(_, _)
mapAssertLimit(args, limitParamsList) ==
  IF Len(limitParamsList) = 0 THEN <<>>
  ELSE LET pushed == Append(args, ruleInterval(Head(limitParamsList)))
       IN <<[interval |-> statFnInterval(pushed), status |-> "pending",
             stat |-> NoStat, fail |-> FALSE]>>
          \o mapAssertLimit(pushed, Tail(limitParamsList))

\* --------------------------------------------------------- SuspendedAsset
assertAssetIsNotSuspendedRejects(table, asset) == BagIn(asset, table)

SuspendedAssetCreate_insert(table, asset) == table (+) SetToBag({asset})

SuspendedAssetCreate(table, asset) ==
  IF BagIn(asset, table) THEN table ELSE table (+) SetToBag({asset})

RECURSIVE createAll(_, _)
createAll(table, assets) ==
  IF Len(assets) = 0 THEN table
  ELSE createAll(SuspendedAssetCreate(table, Head(assets)), Tail(assets))

\* ------------------------------------------------------------ the checks
NumericFields == {"expMonth", "expYear"}

fieldString(obj, f) == IF f \in NumericFields THEN toString(obj[f]) ELSE obj[f]

\* Object.values(pick(obj, paths))
RECURSIVE pickValues(_, _)
pickValues(obj, paths) ==
  IF Len(paths) = 0 THEN <<>>
  ELSE (IF Head(paths) \in DOMAIN obj THEN <<fieldString(obj, Head(paths))>> ELSE <<>>)
       \o pickValues(obj, Tail(paths))

cardFingerprint_noFunding(paymentMethod) ==
  LET creditCardInfo == paymentMethod.creditCardInfo[1]
  IN IF "fingerprint" \in DOMAIN creditCardInfo /\ Truthy(creditCardInfo.fingerprint)
     THEN creditCardInfo.fingerprint
     ELSE join(<<paymentMethod.name>>
               \o pickValues(creditCardInfo, <<"brand", "expMonth", "expYear">>),
               <<"-">>)

cardFingerprint(paymentMethod) ==
  LET creditCardInfo == paymentMethod.creditCardInfo[1]
  IN IF "fingerprint" \in DOMAIN creditCardInfo /\ Truthy(creditCardInfo.fingerprint)
     THEN creditCardInfo.fingerprint
     ELSE join(<<paymentMethod.name>>
               \o pickValues(creditCardInfo, <<"brand", "expMonth", "expYear", "funding">>),
               <<"-">>)

checkUserOptions(user) ==
  [assetParams |-> [type |-> AssetType.USER, fingerprint |-> toString(user.id)],
   onFail |-> TRUE]

checkCreditCardOptions(paymentMethod) ==
  [assetParams |-> [type |-> AssetType.CREDIT_CARD,
                    fingerprint |-> cardFingerprint(paymentMethod)]]

checkIPOptions(ip) ==
  [assetParams |-> [type |-> AssetType.IP, fingerprint |-> ip]]

checkEmailOptions_raw(email) ==
  [assetParams |-> [type |-> AssetType.EMAIL_ADDRESS, fingerprint |-> email]]

checkEmailOptions(email) ==
  [assetParams |-> [type |-> AssetType.EMAIL_ADDRESS, fingerprint |-> toLower(email)]]

\* the options and the args each check passes to validateStat
options(c) ==
  CASE c = "ip" -> checkIPOptions(req.ip)
    [] c = "card" -> checkCreditCardOptions(order.paymentMethod[1])
    [] c = "user" -> checkUserOptions(req.remoteUser[1])
    [] c = "email" -> checkEmailOptions(order.guestInfo[1].email)

statArgs(c) ==
  CASE c = "ip" -> <<req.ip>>
    [] c = "card" -> <<order.paymentMethod[1]>>
    [] c = "user" -> <<req.remoteUser[1]>>
    [] c = "email" -> <<order.guestInfo[1].email>>

limitParamsOf(c) == fraudOrderConfig[c]

\* -------------------------------------------------------------- validateStat
NoError == [check |-> "none", kind |-> "none"]

Selected == {checks[i] : i \in 1..Len(checks)}

\* validateStat without the precheck
runsPreCheck_never(enforce, opts) == FALSE

\* validateStat with the precheck whatever the enforcement flag
runsPreCheck_always(enforce, opts) ==
  "assetParams" \in DOMAIN opts \/ "preCheck" \in DOMAIN opts

\* if (ENFORCE_SUSPENDED_ASSET && (options.assetParams || options.preCheck))
runsPreCheck(enforce, opts) ==
  enforce /\ ("assetParams" \in DOMAIN opts \/ "preCheck" \in DOMAIN opts)

\* await Promise.all(limitParams.map(assertLimit)) with no rule resolves at once
pcAtStats(limitParamsList) == IF Len(limitParamsList) = 0 THEN "resolved" ELSE "stats"

\* options.onFail?.(error) || SuspendedAsset.create({...options.assetParams}):
\* the assets passed to SuspendedAsset.create by the handler and by the default
handlerCreates_wrongType(opts) ==
  IF "onFail" \in DOMAIN opts
  THEN <<[type |-> AssetType.IP, fingerprint |-> opts.assetParams.fingerprint]>>
  ELSE <<>>

handlerCreates(opts) == IF "onFail" \in DOMAIN opts THEN <<opts.assetParams>> ELSE <<>>

\* the default write performed whatever the handler returned
defaultCreates_always(opts) == <<opts.assetParams>>

\* the handler is an async function: its promise is truthy
defaultCreates(opts) == IF "onFail" \in DOMAIN opts THEN <<>> ELSE <<opts.assetParams>>

onFailCreates(opts) == handlerCreates(opts) \o defaultCreates(opts)

\* the error thrown whatever the enforcement flag
errorAfterOnFail_always(enforce, written) == "ValidationFailed"

\* the error never thrown
errorAfterOnFail_never(enforce, written) == "none"

\* onFail awaited without .catch: a failed write rejects the check
errorAfterOnFail_nocatch(enforce, written) ==
  IF ~written THEN "DatabaseError"
  ELSE IF enforce THEN "ValidationFailed" ELSE "none"

\* a write failure of onFail is caught and logged (.catch(logger.error)); the
\* error of the catch block is thrown again only under enforcement
errorAfterOnFail(enforce, written) == IF enforce THEN "ValidationFailed" ELSE "none"

\* the catch block settling the check without awaiting onFail
pcAtCatch_noAwait(enforce) == IF enforce THEN "rejected" ELSE "resolved"

\* the catch block awaits the onFail promise before it goes on
pcAtCatch(enforce) == "onFail"

\* the pending checks dropped once the order is rejected
abortedByOrder_onReject(state) == state = "rejected"

\* Promise.all settles its own promise only: the promises of the other
\* checks are never cancelled, whatever the state of the order
abortedByOrder(state) == FALSE

\* Promise.allSettled followed by a decision: nothing before the last check
promiseAllChecks_allSettled(state, pcNew, c) ==
  IF state # "pending" THEN state
  ELSE IF \E d \in Selected : pcNew[d] \notin {"resolved", "rejected"} THEN "pending"
  ELSE IF \E d \in Selected : pcNew[d] = "rejected" THEN "rejected"
  ELSE "resolved"

\* await Promise.all(checks) of orderFraudProtection, after check c moved to
\* position p: the first rejection settles it, or the last resolution
promiseAllChecks(state, pcNew, c) ==
  IF state # "pending" THEN state
  ELSE IF pcNew[c] = "rejected" THEN "rejected"
  ELSE IF \A d \in Selected : pcNew[d] = "resolved" THEN "resolved"
  ELSE "pending"

\* the error of the last rejection instead of the first
promiseAllError_last(error, state, stateNew, c, kind) ==
  IF kind # "none" THEN [check |-> c, kind |-> kind] ELSE error

\* the error Promise.all(checks) rejects with: that of the rejection that
\* settled it
promiseAllError(error, state, stateNew, c, kind) ==
  IF state = "pending" /\ stateNew = "rejected"
  THEN [check |-> c, kind |-> kind] ELSE error

\* the assertLimit promises of a check: settled, and rejected
assertLimitRejected(q) == q.status = "threw" \/ (q.status = "returned" /\ q.fail)

\* waiting for the first rule only
allAssertLimitsResolved_first(qs) ==
  qs[1].status = "returned" /\ ~qs[1].fail

allAssertLimitsResolved(qs) ==
  \A k \in 1..Len(qs) : qs[k].status = "returned" /\ ~qs[k].fail

\* ---------------------------------------------------- orderFraudProtection
\* the email check pushed by an `if` of its own instead of the `else if`
selectChecks_both(request, ord) ==
  LET ipChecks == IF Truthy(request.ip) THEN <<"ip">> ELSE <<>>
      cardChecks ==
        IF Truthy(ord.paymentMethod) /\ Truthy(ord.paymentMethod[1].creditCardInfo)
        THEN Append(ipChecks, "card") ELSE ipChecks
      userChecks == IF Truthy(request.remoteUser) THEN Append(cardChecks, "user") ELSE cardChecks
  IN IF Truthy(ord.guestInfo) /\ Truthy(ord.guestInfo[1].email)
     THEN Append(userChecks, "email")
     ELSE userChecks

selectChecks(request, ord) ==
  LET ipChecks == IF Truthy(request.ip) THEN <<"ip">> ELSE <<>>
      cardChecks ==
        IF Truthy(ord.paymentMethod) /\ Truthy(ord.paymentMethod[1].creditCardInfo)
        THEN Append(ipChecks, "card") ELSE ipChecks
  IN IF Truthy(request.remoteUser) THEN Append(cardChecks, "user")
     ELSE IF Truthy(ord.guestInfo) /\ Truthy(ord.guestInfo[1].email)
          THEN Append(cardChecks, "email")
          ELSE cardChecks

orderFraudProtection ==
  /\ orderState = "init"
  /\ LET pushed == selectChecks(req, order)
         started == {pushed[i] : i \in 1..Len(pushed)}
         pcNew == [c \in CheckNames |->
                     IF c \notin started THEN "none"
                     ELSE IF runsPreCheck(ENFORCE_SUSPENDED_ASSET, options(c)) THEN "preCheck"
                     ELSE pcAtStats(limitParamsOf(c))]
     IN /\ checks' = pushed
        /\ pc' = pcNew
        /\ queries' = [c \in CheckNames |->
                         IF c \in started /\ pcNew[c] # "preCheck"
                         THEN mapAssertLimit(statArgs(c), limitParamsOf(c))
                         ELSE <<>>]
        /\ orderState' = IF \A c \in started : pcNew[c] = "resolved"
                         THEN "resolved" ELSE "pending"
  /\ UNCHANGED <<inputs, loaded, store, caught, createCalls, onFailResult, checkError, orderError>>

\* the continuation of `await preCheck`
PreCheckReturn(c) ==
  /\ pc[c] = "preCheck"
  /\ ~abortedByOrder(orderState)
  /\ IF assertAssetIsNotSuspendedRejects(store, options(c).assetParams)
     THEN /\ pc' = [pc EXCEPT ![c] = "rejected"]
          /\ checkError' = [checkError EXCEPT ![c] = "AssetSuspended"]
          /\ UNCHANGED queries
     ELSE /\ pc' = [pc EXCEPT ![c] = pcAtStats(limitParamsOf(c))]
          /\ queries' = [queries EXCEPT ![c] = mapAssertLimit(statArgs(c), limitParamsOf(c))]
          /\ UNCHANGED checkError
  /\ orderState' = promiseAllChecks(orderState, pc', c)
  /\ orderError' = promiseAllError(orderError, orderState, orderState', c, checkError'[c])
  /\ UNCHANGED <<inputs, loaded, store, checks, caught, createCalls, onFailResult>>

\* the continuation of `await statFn(...args)` in assertLimit for rule k, and
\* of `await Promise.all(...)` in validateStat when this settles it
StatReturn(c, k, threw, row) ==
  /\ k \in 1..Len(queries[c])
  /\ queries[c][k].status = "pending"
  /\ ~abortedByOrder(orderState)
  /\ LET fail == ~threw /\ statLimitFail(row, limitParamsOf(c)[k])
         q == [queries[c][k] EXCEPT !.status = IF threw THEN "threw" ELSE "returned",
                                    !.stat = IF threw THEN NoStat ELSE row,
                                    !.fail = fail]
         qs == [queries[c] EXCEPT ![k] = q]
     IN /\ queries' = [queries EXCEPT ![c] = qs]
        /\ IF pc[c] = "stats" /\ assertLimitRejected(q)
           THEN \* catch (e): build the error, warn, start the suspension
                /\ pc' = [pc EXCEPT ![c] = pcAtCatch(ENFORCE_SUSPENDED_ASSET)]
                /\ caught' = [caught EXCEPT ![c] = k]
                /\ createCalls' = [createCalls EXCEPT ![c] = onFailCreates(options(c))]
                /\ onFailResult' = [onFailResult EXCEPT ![c] = "pending"]
           ELSE /\ pc' = [pc EXCEPT ![c] =
                            IF pc[c] = "stats" /\ allAssertLimitsResolved(qs)
                            THEN "resolved" ELSE pc[c]]
                /\ UNCHANGED <<caught, createCalls, onFailResult>>
  /\ orderState' = promiseAllChecks(orderState, pc', c)
  /\ UNCHANGED <<inputs, loaded, store, checks, checkError, orderError>>

\* the continuation of `await onFail.catch(logger.error)`
OnFailReturn(c, written) ==
  /\ pc[c] = "onFail"
  /\ ~abortedByOrder(orderState)
  /\ store' = IF written THEN createAll(store, createCalls[c]) ELSE store
  /\ onFailResult' = [onFailResult EXCEPT ![c] = IF written THEN "written" ELSE "logged"]
  /\ checkError' = [checkError EXCEPT ![c] = errorAfterOnFail(ENFORCE_SUSPENDED_ASSET, written)]
  /\ pc' = [pc EXCEPT ![c] = IF checkError'[c] = "none" THEN "resolved" ELSE "rejected"]
  /\ orderState' = promiseAllChecks(orderState, pc', c)
  /\ orderError' = promiseAllError(orderError, orderState, orderState', c, checkError'[c])
  /\ UNCHANGED <<inputs, loaded, checks, queries, caught, createCalls>>

\* ------------------------------------------------------- BASE_STATS_QUERY
\* A row of Orders LEFT JOIN PaymentMethods: CreatedByUserId, deleted
\* (deletedAt IS NOT NULL), age (days since createdAt), status, and the payment
\* method's type, name and data->>'expYear'.  Rates are numbers in units of
\* 1 / RateUnit, the precision of ROUND(..., 5).
RateUnit == 100000

IntervalDays(interval) ==
  CASE interval = "1 day" -> 1
    [] interval = "1 month" -> 30

\* CONCAT(pm."name", pm."data"->>'expYear')
CONCAT_delimited(a, b) == a \o <<"|">> \o b

CONCAT(a, b) == a \o b

\* ROUND(num / den, 5), half away from zero
ROUND5(num, den) == (2 * num * RateUnit + den) \div (2 * den)

getUserStats(table, user, interval) ==
  LET rows == {i \in 1..Len(table) :
                 /\ table[i].CreatedByUserId = user.id
                 /\ ~table[i].deleted
                 /\ table[i].pmType = "creditcard"
                 /\ table[i].age <= IntervalDays(interval)}
      count == Cardinality(rows)
      errors == Cardinality({i \in rows : table[i].status = "ERROR"})
      distinct == Cardinality({CONCAT(table[i].name, table[i].expYear) : i \in rows})
  IN [numberOfOrders |-> count,
      errorRate |-> IF count = 0 THEN 0 ELSE ROUND5(errors, count),
      paymentMethodRate |-> IF count = 0 THEN 0 ELSE (distinct * RateUnit) \div count]

\* ---------------------------------------------------------------- loaders
\* A batch function gets the array of keys of one DataLoader batch and
\* returns the array of their results.  null is <<>>, a value v is <<v>>.
NoDb == [kind |-> "none"]
NotLoaded == [loader |-> "none"]

\* SUM(column) over a set of row indexes
RECURSIVE SUM(_, _, _)
SUM(rows, column, indexes) ==
  IF indexes = {} THEN 0
  ELSE LET i == CHOOSE j \in indexes : TRUE
       IN rows[i][column] + SUM(rows, column, indexes \ {i})

\* GROUP BY: the distinct values of a sequence, in order of first appearance
RECURSIVE Distinct(_)
Distinct(seq) ==
  IF Len(seq) = 0 THEN <<>>
  ELSE LET front == Distinct(SubSeq(seq, 1, Len(seq) - 1))
           last == seq[Len(seq)]
       IN IF \E i \in 1..Len(front) : front[i] = last THEN front ELSE Append(front, last)

\* models.Collective.findAll({where: {id: {[Op.in]: ids}}, include: host}):
\* a row [id, host] per collective found, host the HostCollectiveId's
\* collective or null
findAllCollectives(collectives, ids) ==
  LET inIds(row) == \E i \in 1..Len(ids) : ids[i] = row.id
  IN SelectSeq(collectives, inIds)

\* resultsById[id] after the for loop: the host of the last row with that id
RECURSIVE resultsById(_, _)
resultsById(results, id) ==
  IF Len(results) = 0 THEN <<>>
  ELSE IF results[Len(results)].id = id THEN results[Len(results)].host
  ELSE resultsById(SubSeq(results, 1, Len(results) - 1), id)

\* context.loaders.Collective.host
CollectiveHost(collectives, ids) ==
  [i \in 1..Len(ids) |-> resultsById(findAllCollectives(collectives, ids), ids[i])]

\* order statuses that do not take a seat of the tier
NotCounted == {"ERROR", "CANCELLED", "EXPIRED", "REJECTED"}

\* the availableQuantity query: a row per tier in tierIds with a maxQuantity
availableQuantityQuery(tiers, orders, tierIds) ==
  LET wanted(t) == (\E i \in 1..Len(tierIds) : tierIds[i] = t.id) /\ t.maxQuantity # <<>>
      joined(t) == {i \in 1..Len(orders) :
                      /\ orders[i].TierId = t.id
                      /\ orders[i].processed
                      /\ orders[i].status \notin NotCounted}
      found == SelectSeq(tiers, wanted)
  IN [j \in 1..Len(found) |->
        [id |-> found[j].id,
         availableQuantity |-> found[j].maxQuantity[1] - SUM(orders, "quantity", joined(found[j]))]]

\* results.find(({ id }) => id === tierId)
RECURSIVE find(_, _)
find(results, tierId) ==
  IF Len(results) = 0 THEN <<>>
  ELSE IF Head(results).id = tierId THEN <<Head(results)>>
  ELSE find(Tail(results), tierId)

\* context.loaders.Tier.availableQuantity
TierAvailableQuantity(tiers, orders, tierIds) ==
  LET results == availableQuantityQuery(tiers, orders, tierIds)
  IN [i \in 1..Len(tierIds) |->
        LET result == find(results, tierIds[i])
        IN IF result # <<>>
           THEN <<IF result[1].availableQuantity > 0 THEN result[1].availableQuantity ELSE 0>>
           ELSE <<>>]

\* models.Member.findAll grouped by TierId and memberCollective.type
contributorsStatsQuery(members, tiersIds) ==
  LET inIds(row) == \E i \in 1..Len(tiersIds) : tiersIds[i] = row.TierId
      found == SelectSeq(members, inIds)
      groups == Distinct([i \in 1..Len(found) |-> <<found[i].TierId, found[i].type>>])
  IN [g \in 1..Len(groups) |->
        [TierId |-> groups[g][1], type |-> groups[g][2],
         count |-> Cardinality({i \in 1..Len(found) :
                                  <<found[i].TierId, found[i].type>> = groups[g]})]]

getDefaultStats(TierId) ==
  [id |-> TierId, all |-> 0, USER |-> 0, ORGANIZATION |-> 0, COLLECTIVE |-> 0]

\* resultsMap[tierId] || getDefaultStats(tierId) after the forEach
RECURSIVE resultsMap(_, _)
resultsMap(results, tierId) ==
  IF Len(results) = 0 THEN getDefaultStats(tierId)
  ELSE LET before == resultsMap(SubSeq(results, 1, Len(results) - 1), tierId)
           row == results[Len(results)]
       IN IF row.TierId = tierId
          THEN [before EXCEPT ![row.type] = row.count, !.all = @ + row.count]
          ELSE before

\* context.loaders.Tier.contributorsStats
TierContributorsStats(members, tiersIds) ==
  [i \in 1..Len(tiersIds) |-> resultsMap(contributorsStatsQuery(members, tiersIds), tiersIds[i])]

\* `${FromCollectiveId}-${CollectiveId}`
keyString(FromCollectiveId, CollectiveId) ==
  toString(FromCollectiveId) \o <<"-">> \o toString(CollectiveId)

keysColumn(keys, column) == {keys[i][column] : i \in 1..Len(keys)}

\* models.Transaction.findAll of directDonationsFromTo
directDonationsQuery(transactions, keys) ==
  LET matches(row) == /\ row.FromCollectiveId \in keysColumn(keys, "FromCollectiveId")
                      /\ row.CollectiveId \in keysColumn(keys, "CollectiveId")
                      /\ row.type = "CREDIT"
      found == SelectSeq(transactions, matches)
      groups == Distinct([i \in 1..Len(found) |->
                           <<found[i].FromCollectiveId, found[i].CollectiveId>>])
  IN [g \in 1..Len(groups) |->
        [FromCollectiveId |-> groups[g][1], CollectiveId |-> groups[g][2],
         totalAmount |-> SUM(found, "amount",
                             {i \in 1..Len(found) :
                                <<found[i].FromCollectiveId, found[i].CollectiveId>> = groups[g]})]]

\* resultsByKey[key] || 0 of directDonationsFromTo
RECURSIVE resultsByKey(_, _)
resultsByKey(results, key) ==
  IF Len(results) = 0 THEN 0
  ELSE LET row == results[Len(results)]
       IN IF keyString(row.FromCollectiveId, row.CollectiveId) = key THEN row.totalAmount
          ELSE resultsByKey(SubSeq(results, 1, Len(results) - 1), key)

\* context.loaders.Transaction.directDonationsFromTo
directDonationsFromTo(transactions, keys) ==
  [i \in 1..Len(keys) |->
     resultsByKey(directDonationsQuery(transactions, keys),
                  keyString(keys[i].FromCollectiveId, keys[i].CollectiveId))]

\* models.Transaction.findAll of totalAmountDonatedFromTo
totalAmountDonatedQuery(transactions, keys) ==
  LET matches(row) ==
        /\ \/ row.FromCollectiveId \in keysColumn(keys, "FromCollectiveId")
           \/ row.UsingGiftCardFromCollectiveId \in keysColumn(keys, "FromCollectiveId")
        /\ row.CollectiveId \in keysColumn(keys, "CollectiveId")
        /\ row.type = "CREDIT"
        /\ ~row.refunded
      group(row) == <<row.FromCollectiveId, row.UsingGiftCardFromCollectiveId, row.CollectiveId>>
      found == SelectSeq(transactions, matches)
      groups == Distinct([i \in 1..Len(found) |-> group(found[i])])
  IN [g \in 1..Len(groups) |->
        [FromCollectiveId |-> groups[g][1], UsingGiftCardFromCollectiveId |-> groups[g][2],
         CollectiveId |-> groups[g][3],
         totalAmount |-> SUM(found, "amount",
                             {i \in 1..Len(found) : group(found[i]) = groups[g]})]]

\* resultsByKey[key] || 0 of totalAmountDonatedFromTo: a row credits the
\* collective that emitted the gift card, if any, and the collective that
\* made the transaction
RECURSIVE donatedByKey(_, _)
donatedByKey(results, key) ==
  IF Len(results) = 0 THEN 0
  ELSE LET row == results[Len(results)]
           giftCard == IF row.UsingGiftCardFromCollectiveId # 0
                          /\ keyString(row.UsingGiftCardFromCollectiveId, row.CollectiveId) = key
                       THEN row.totalAmount ELSE 0
           made == IF keyString(row.FromCollectiveId, row.CollectiveId) = key
                   THEN row.totalAmount ELSE 0
       IN donatedByKey(SubSeq(results, 1, Len(results) - 1), key) + giftCard + made

\* context.loaders.Transaction.totalAmountDonatedFromTo
totalAmountDonatedFromTo(transactions, keys) ==
  [i \in 1..Len(keys) |->
     donatedByKey(totalAmountDonatedQuery(transactions, keys),
                  keyString(keys[i].FromCollectiveId, keys[i].CollectiveId))]

\* ------------------------------------------------------------------ inputs
Ip1 == <<"9">>
User7 == [id |-> 7]
Email1 == <<"A", "b">>
PmNoCard == [name |-> <<"J">>, creditCardInfo |-> <<>>]
PmCard == [name |-> <<"J">>,
           creditCardInfo |-> <<[brand |-> <<"v">>, expMonth |-> 3, expYear |-> 30,
                                 funding |-> <<"c">>]>>]

Requests == [ip : {<<>>, Ip1}, remoteUser : {<<>>, <<User7>>}]
Orders == [paymentMethod : {<<>>, <<PmNoCard>>, <<PmCard>>},
           guestInfo : {<<>>, <<[email |-> Email1]>>}]

Letters == {"A", "a", "B", "b"}
Emails == {<<x, y>> : x \in Letters, y \in Letters}

\* creditCardInfo objects: brand, funding and fingerprint are optional keys,
\* and a fingerprint may be the empty string
Optional(key, values) == {[k \in {} |-> k]} \cup {[k \in {key} |-> v] : v \in values}
CardInfos ==
  {dates @@ brand @@ funding @@ token :
     dates \in [expMonth : {3, 4}, expYear : {30, 31}],
     brand \in Optional("brand", {<<"v">>, <<"m">>}),
     funding \in Optional("funding", {<<"c">>, <<"d">>}),
     token \in Optional("fingerprint", {<<>>, <<"t">>})}
CardPms == [name : {<<"J">>, <<"K">>}, creditCardInfo : {<<info>> : info \in CardInfos}]

\* orders of user 7 by card within the last day, and orders that miss one of
\* the query's conditions
OrderRow(user, deleted, age, pmType, status, card) ==
  [CreatedByUserId |-> user, deleted |-> deleted, age |-> age, pmType |-> pmType,
   status |-> status, name |-> card[1], expYear |-> card[2]]
CardsOnFile == {<<<<"J">>, <<"3", "0">>>>, <<<<"J", "3">>, <<"0">>>>, <<<<"K">>, <<"3", "0">>>>}
MatchingRows ==
  {OrderRow(7, FALSE, 0, "creditcard", status, card) :
     status \in {"ERROR", "PAID"}, card \in CardsOnFile}
OtherRows ==
  {OrderRow(8, FALSE, 0, "creditcard", "ERROR", <<<<"K">>, <<"3", "0">>>>),
   OrderRow(7, TRUE, 0, "creditcard", "ERROR", <<<<"K">>, <<"3", "0">>>>),
   OrderRow(7, FALSE, 2, "creditcard", "ERROR", <<<<"K">>, <<"3", "0">>>>),
   OrderRow(7, FALSE, 0, "paypal", "ERROR", <<<<"K">>, <<"3", "0">>>>)}
RECURSIVE Tables(_)
Tables(n) ==
  IF n = 0 THEN {<<>>}
  ELSE Tables(n - 1)
       \cup {Append(t, r) : t \in {u \in Tables(n - 1) : Len(u) = n - 1},
                            r \in MatchingRows \cup OtherRows}

Rates == 0..MaxRate
AllRows == [numberOfOrders : 0..MaxOrders, errorRate : Rates, paymentMethodRate : Rates]
MidRow == [numberOfOrders |-> 1, errorRate |-> 1, paymentMethodRate |-> 1]
HighRow == [numberOfOrders |-> MaxOrders, errorRate |-> MaxRate, paymentMethodRate |-> MaxRate]

RuleDay == <<"1 day", 1, 1, 1>>
RuleMonth == <<"1 month", 2, 1, 1>>
OrderRuleLists == {<<>>, <<RuleDay>>}
RulesRuleLists == {<<>>, <<RuleDay>>, <<RuleDay, RuleMonth>>, <<RuleMonth, RuleDay>>}
EvalRuleLists == {<<<<"1 day", a, b, c>>>> : a \in 0..MaxOrders, b \in Rates, c \in Rates}

\* the assets of the subjects an order's checks would be about
orderAssets(request, ord) ==
  LET sel == selectChecks(request, ord)
  IN {(CASE sel[i] = "ip" -> checkIPOptions(request.ip)
         [] sel[i] = "card" -> checkCreditCardOptions(ord.paymentMethod[1])
         [] sel[i] = "user" -> checkUserOptions(request.remoteUser[1])
         [] sel[i] = "email" -> checkEmailOptions(ord.guestInfo[1].email)).assetParams
      : i \in 1..Len(sel)}

InitCalls ==
  /\ checks = <<>>
  /\ pc = [c \in CheckNames |-> "none"]
  /\ queries = [c \in CheckNames |-> <<>>]
  /\ caught = [c \in CheckNames |-> 0]
  /\ createCalls = [c \in CheckNames |-> <<>>]
  /\ onFailResult = [c \in CheckNames |-> "none"]
  /\ checkError = [c \in CheckNames |-> "none"]
  /\ orderState = "init"
  /\ orderError = NoError
  /\ suspendedBefore = BagToSet(store)
  /\ loaded = NotLoaded

\* an order of any shape, with some of its subjects suspended by earlier orders
Init ==
  /\ ENFORCE_SUSPENDED_ASSET \in BOOLEAN
  /\ \E limitParamsList \in OrderRuleLists :
       fraudOrderConfig = [c \in CheckNames |-> limitParamsList]
  /\ req \in Requests
  /\ order \in Orders
  /\ dbRows = {NoStat, HighRow}
  /\ \E suspended \in SUBSET orderAssets(req, order) : store = SetToBag(suspended)
  /\ ordersTable = <<>>
  /\ db = NoDb
  /\ InitCalls

\* an order with one subject only, checked against up to two rules
InitRules ==
  /\ ENFORCE_SUSPENDED_ASSET \in BOOLEAN
  /\ \E limitParamsList \in RulesRuleLists :
       fraudOrderConfig = [c \in CheckNames |-> limitParamsList]
  /\ req \in Requests
  /\ order \in Orders
  /\ Len(selectChecks(req, order)) = 1
  /\ dbRows = {NoStat, MidRow, HighRow}
  /\ \E suspended \in SUBSET orderAssets(req, order) : store = SetToBag(suspended)
  /\ ordersTable = <<>>
  /\ db = NoDb
  /\ InitCalls

\* one IP check with any rule and any aggregate row
InitEval ==
  /\ ENFORCE_SUSPENDED_ASSET \in BOOLEAN
  /\ \E limitParamsList \in EvalRuleLists :
       fraudOrderConfig = [c \in CheckNames |-> limitParamsList]
  /\ req = [ip |-> Ip1, remoteUser |-> <<>>]
  /\ order = [paymentMethod |-> <<>>, guestInfo |-> <<>>]
  /\ dbRows = AllRows
  /\ store = EmptyBag
  /\ ordersTable = <<>>
  /\ db = NoDb
  /\ InitCalls

\* a guest order by any email, after an earlier guest order by some email
\* had that email suspended
InitEmail ==
  /\ ENFORCE_SUSPENDED_ASSET \in BOOLEAN
  /\ \E limitParamsList \in OrderRuleLists :
       fraudOrderConfig = [c \in CheckNames |-> limitParamsList]
  /\ req = [ip |-> <<>>, remoteUser |-> <<>>]
  /\ \E email \in Emails : order = [paymentMethod |-> <<>>, guestInfo |-> <<[email |-> email]>>]
  /\ dbRows = {NoStat, HighRow}
  /\ \/ store = EmptyBag
     \/ \E earlier \in Emails : store = SetToBag({checkEmailOptions(earlier).assetParams})
  /\ ordersTable = <<>>
  /\ db = NoDb
  /\ InitCalls

\* an order paid with any card, by nobody known and from no known address
InitCard ==
  /\ ENFORCE_SUSPENDED_ASSET \in BOOLEAN
  /\ fraudOrderConfig = [c \in CheckNames |-> <<RuleDay>>]
  /\ req = [ip |-> <<>>, remoteUser |-> <<>>]
  /\ \E paymentMethod \in CardPms :
       order = [paymentMethod |-> <<paymentMethod>>, guestInfo |-> <<>>]
  /\ dbRows = {NoStat, HighRow}
  /\ store = EmptyBag
  /\ ordersTable = <<>>
  /\ db = NoDb
  /\ InitCalls

\* an order by user 7, whose statistics are queried from an Orders table
InitStats ==
  /\ ENFORCE_SUSPENDED_ASSET \in BOOLEAN
  /\ fraudOrderConfig = [c \in CheckNames |-> <<RuleDay>>]
  /\ req = [ip |-> <<>>, remoteUser |-> <<User7>>]
  /\ order = [paymentMethod |-> <<>>, guestInfo |-> <<>>]
  /\ ordersTable \in Tables(MaxTableRows)
  /\ db = NoDb
  /\ dbRows = {getUserStats(ordersTable, req.remoteUser[1], ruleInterval(RuleDay))}
  /\ store = EmptyBag
  /\ InitCalls

\* the loader actions leave the fraud protection's state alone
idle == <<inputs, store, checks, pc, queries, caught, createCalls, onFailResult,
          checkError, orderState, orderError>>

Collective_host(ids) ==
  /\ db.kind = "Collectives"
  /\ loaded.loader = "none"
  /\ loaded' = [loader |-> "Collective.host", keys |-> ids,
                result |-> CollectiveHost(db.collectives, ids)]
  /\ UNCHANGED idle

Tier_availableQuantity(tierIds) ==
  /\ db.kind = "Tiers"
  /\ loaded.loader = "none"
  /\ loaded' = [loader |-> "Tier.availableQuantity", keys |-> tierIds,
                result |-> TierAvailableQuantity(db.tiers, db.orders, tierIds)]
  /\ UNCHANGED idle

Tier_contributorsStats(tiersIds) ==
  /\ db.kind = "Members"
  /\ loaded.loader = "none"
  /\ loaded' = [loader |-> "Tier.contributorsStats", keys |-> tiersIds,
                result |-> TierContributorsStats(db.members, tiersIds)]
  /\ UNCHANGED idle

Transaction_directDonationsFromTo(keys) ==
  /\ db.kind = "Transactions"
  /\ loaded.loader = "none"
  /\ loaded' = [loader |-> "Transaction.directDonationsFromTo", keys |-> keys,
                result |-> directDonationsFromTo(db.transactions, keys)]
  /\ UNCHANGED idle

Transaction_totalAmountDonatedFromTo(keys) ==
  /\ db.kind = "Transactions"
  /\ loaded.loader = "none"
  /\ loaded' = [loader |-> "Transaction.totalAmountDonatedFromTo", keys |-> keys,
                result |-> totalAmountDonatedFromTo(db.transactions, keys)]
  /\ UNCHANGED idle

\* sequences of at most n elements of a set
RECURSIVE SeqsUpTo(_, _)
SeqsUpTo(S, n) ==
  IF n = 0 THEN {<<>>}
  ELSE SeqsUpTo(S, n - 1)
       \cup {Append(t, x) : t \in {u \in SeqsUpTo(S, n - 1) : Len(u) = n - 1}, x \in S}

UniqueIds(rows) == \A i, j \in 1..Len(rows) : rows[i].id = rows[j].id => i = j

LoaderIds == 1..2
IdKeys == SeqsUpTo(LoaderIds, MaxKeys)
FromToKeys == SeqsUpTo([FromCollectiveId : 1..2, CollectiveId : 3..4], MaxKeys)

CollectiveRows == [id : LoaderIds, host : {<<>>, <<8>>, <<9>>}]
TierRows == [id : LoaderIds, maxQuantity : {<<>>, <<1>>, <<2>>}]
TierOrderRows ==
  [TierId : LoaderIds, quantity : {1, 2}, processed : {TRUE}, status : {"PAID"}]
  \cup {[TierId |-> 1, quantity |-> 1, processed |-> FALSE, status |-> "PAID"],
        [TierId |-> 1, quantity |-> 1, processed |-> TRUE, status |-> "ERROR"]}
MemberRows == [TierId : LoaderIds, type : {"USER", "ORGANIZATION"}]
TransactionRows ==
  [FromCollectiveId : 1..2, UsingGiftCardFromCollectiveId : 0..2, CollectiveId : 3..4,
   amount : {5}, type : {"CREDIT"}, refunded : {FALSE}]
  \cup {[FromCollectiveId |-> 1, UsingGiftCardFromCollectiveId |-> 0, CollectiveId |-> 3,
         amount |-> 5, type |-> "DEBIT", refunded |-> FALSE],
        [FromCollectiveId |-> 1, UsingGiftCardFromCollectiveId |-> 0, CollectiveId |-> 3,
         amount |-> 5, type |-> "CREDIT", refunded |-> TRUE]}

Dbs ==
  {[kind |-> "Collectives", collectives |-> t] :
     t \in {u \in SeqsUpTo(CollectiveRows, MaxLoaderRows) : UniqueIds(u)}}
  \cup {[kind |-> "Tiers", tiers |-> t, orders |-> o] :
          t \in {u \in SeqsUpTo(TierRows, MaxLoaderRows) : UniqueIds(u)},
          o \in SeqsUpTo(TierOrderRows, MaxLoaderRows)}
  \cup {[kind |-> "Members", members |-> t] : t \in SeqsUpTo(MemberRows, MaxLoaderRows)}
  \cup {[kind |-> "Transactions", transactions |-> t] :
          t \in SeqsUpTo(TransactionRows, MaxLoaderRows)}

\* a request whose loaders have not been called yet, over any database
InitLoaders ==
  /\ ENFORCE_SUSPENDED_ASSET = FALSE
  /\ fraudOrderConfig = [c \in CheckNames |-> <<>>]
  /\ req = [ip |-> <<>>, remoteUser |-> <<>>]
  /\ order = [paymentMethod |-> <<>>, guestInfo |-> <<>>]
  /\ dbRows = {NoStat}
  /\ store = EmptyBag
  /\ ordersTable = <<>>
  /\ db \in Dbs
  /\ InitCalls

NextLoaders ==
  \/ \E ids \in IdKeys : Collective_host(ids)
  \/ \E tierIds \in IdKeys : Tier_availableQuantity(tierIds)
  \/ \E tiersIds \in IdKeys : Tier_contributorsStats(tiersIds)
  \/ \E keys \in FromToKeys : Transaction_directDonationsFromTo(keys)
  \/ \E keys \in FromToKeys : Transaction_totalAmountDonatedFromTo(keys)

Next ==
  \/ orderFraudProtection
  \/ \E c \in CheckNames : PreCheckReturn(c)
  \/ \E c \in CheckNames : \E k \in 1..Len(queries[c]) : \E threw \in BOOLEAN :
       \E row \in (IF threw THEN {NoStat} ELSE dbRows) : StatReturn(c, k, threw, row)
  \/ \E c \in CheckNames : \E written \in BOOLEAN : OnFailReturn(c, written)

Spec == Init /\ [][Next]_vars

\* every database promise settles and the event loop runs its continuation
Fairness ==
  \A c \in CheckNames :
    /\ WF_vars(PreCheckReturn(c))
    /\ WF_vars(\E k \in 1..Len(queries[c]) : \E threw \in BOOLEAN :
                 \E row \in (IF threw THEN {NoStat} ELSE dbRows) : StatReturn(c, k, threw, row))
    /\ WF_vars(\E written \in BOOLEAN : OnFailReturn(c, written))

FairSpec == Init /\ [][Next]_vars /\ Fairness

SpecRules == InitRules /\ [][Next]_vars

SpecEval == InitEval /\ [][Next]_vars

SpecEmail == InitEmail /\ [][Next]_vars

SpecCard == InitCard /\ [][Next]_vars

SpecStats == InitStats /\ [][Next]_vars

SpecLoaders == InitLoaders /\ [][NextLoaders]_vars

\* ------------------------------------------------------------------ claims
\* the claims' own reading of a rule [interval, maxOrders, maxErrorRate,
\* maxPaymentMethodRate] being violated by a row of statistics
Violates(stat, rule) ==
  /\ stat.numberOfOrders >= rule[2]
  /\ stat.errorRate >= rule[3]
  /\ stat.paymentMethodRate >= rule[4]

Returned(c) == {k \in 1..Len(queries[c]) : queries[c][k].status = "returned"}
Threw(c) == {k \in 1..Len(queries[c]) : queries[c][k].status = "threw"}
PastStats(c) == pc[c] \in {"onFail", "resolved", "rejected"} /\ checkError[c] # "AssetSuspended"

\* C1: a rule is reported as violated (its assertLimit throws, which with one
\* rule is what validateStat catches) exactly when numberOfOrders, errorRate
\* and paymentMethodRate are each at or above the rule's limit; one metric
\* below its limit makes the rule pass.
C1_RuleViolatedIffAllMetricsReachLimits ==
  \A c \in CheckNames : \A k \in Returned(c) :
    LET stat == queries[c][k].stat
        rule == limitParamsOf(c)[k]
    IN /\ queries[c][k].fail <=> Violates(stat, rule)
       /\ (caught[c] = k) <=> Violates(stat, rule)
       /\ (stat.numberOfOrders < rule[2] \/ stat.errorRate < rule[3]
           \/ stat.paymentMethodRate < rule[4]) => ~queries[c][k].fail

\* a rule violated with one metric exactly at its limit and one above it
C1_Witness ==
  \E c \in CheckNames : \E k \in Returned(c) :
    /\ caught[c] = k
    /\ queries[c][k].stat.numberOfOrders = limitParamsOf(c)[k][2]
    /\ queries[c][k].stat.errorRate > limitParamsOf(c)[k][3]

\* C2: once the statistics of a check are in (no provider call failed), the
\* check has failed exactly when at least one rule of its list is violated by
\* the statistics returned for it; with an empty list it has not failed.
C2_CheckFailsIffSomeRuleViolated ==
  \A c \in Selected :
    (PastStats(c) /\ Threw(c) = {}) =>
      /\ (caught[c] # 0) <=>
           (\E k \in Returned(c) : Violates(queries[c][k].stat, limitParamsOf(c)[k]))
      /\ Len(limitParamsOf(c)) = 0 => caught[c] = 0
      /\ caught[c] = 0 => Returned(c) = 1..Len(limitParamsOf(c))

\* a list of two rules of which the first passes and the second is violated
C2_Witness ==
  \E c \in Selected :
    /\ Len(limitParamsOf(c)) = 2
    /\ Returned(c) = {1, 2}
    /\ caught[c] = 2
    /\ ~Violates(queries[c][1].stat, limitParamsOf(c)[1])

\* C3: the statistics compared against rule k come from a provider query
\* issued with rule k's own interval.
C3_EachRuleQueriedWithItsOwnInterval ==
  \A c \in CheckNames : \A k \in 1..Len(queries[c]) :
    queries[c][k].interval = ruleInterval(limitParamsOf(c)[k])

Settled(c) == pc[c] \in {"resolved", "rejected"}

\* the thresholds of check c were found violated: a returned row met all
\* three limits of its rule
ThresholdsViolated(c) == \E k \in Returned(c) : queries[c][k].fail

\* C4: with enforcement disabled no check and no order is rejected, the order
\* resolves once its checks are through, and for each subject whose
\* statistics violate a rule SuspendedAsset.create was called with the
\* subject's asset, which is in the store when that write succeeded.
C4_DisabledResolvesAndSuspends ==
  ~ENFORCE_SUSPENDED_ASSET =>
    /\ orderState # "rejected"
    /\ \A c \in CheckNames : pc[c] # "rejected"
    /\ (orderState # "init" /\ \A c \in Selected : Settled(c)) => orderState = "resolved"
    /\ \A c \in Selected :
         ThresholdsViolated(c) =>
           /\ Len(createCalls[c]) >= 1
           /\ \A i \in 1..Len(createCalls[c]) : createCalls[c][i] = options(c).assetParams
           /\ onFailResult[c] = "written" => BagIn(options(c).assetParams, store)
           /\ orderState = "resolved" => onFailResult[c] \in {"written", "logged"}

\* an order of three subjects, each violating its rule, resolved with the
\* three assets written
C4_Witness ==
  /\ ~ENFORCE_SUSPENDED_ASSET
  /\ orderState = "resolved"
  /\ Len(checks) = 3
  /\ \A c \in Selected :
       /\ \A k \in 1..Len(queries[c]) : queries[c][k].status = "returned" /\ queries[c][k].fail
       /\ onFailResult[c] = "written"
       /\ BagIn(options(c).assetParams, store)

\* C5: with enforcement enabled, a selected subject whose asset was in the
\* store before the order came (in the store, and not written by the
\* subject's own check, the only writer of that asset) has no statistics
\* query issued and no suspension written; its check is rejected by the
\* precheck and the order is rejected with it.
C5_SuspendedAssetShortCircuits ==
  ENFORCE_SUSPENDED_ASSET =>
    \A c \in Selected :
      (BagIn(options(c).assetParams, store) /\ onFailResult[c] # "written") =>
        /\ queries[c] = <<>>
        /\ createCalls[c] = <<>>
        /\ pc[c] \in {"preCheck", "rejected"}
        /\ pc[c] = "rejected" => (checkError[c] = "AssetSuspended" /\ orderState = "rejected")

\* a check rejected by the precheck while another subject's statistics were queried
C5_Witness ==
  /\ ENFORCE_SUSPENDED_ASSET
  /\ \E c \in Selected :
       /\ pc[c] = "rejected"
       /\ checkError[c] = "AssetSuspended"
       /\ queries[c] = <<>>
       /\ orderState = "rejected"
       /\ \E d \in Selected : d # c /\ Len(queries[d]) > 0

\* C6 as stated: under enforcement an order with a check whose thresholds
\* are violated is never resolved and, when rejected, is rejected with a
\* ValidationFailed error; without enforcement nothing is rejected.
C6_ViolationRejectsWithValidationFailed ==
  /\ (ENFORCE_SUSPENDED_ASSET /\ \E c \in Selected : ThresholdsViolated(c)) =>
       /\ orderState # "resolved"
       /\ orderState = "rejected" => orderError.kind = "ValidationFailed"
  /\ ~ENFORCE_SUSPENDED_ASSET => orderState # "rejected"

\* C6 amended: under enforcement an order with a check whose thresholds are
\* violated is never resolved, and is rejected at the latest when that check
\* settles; the error is the ValidationFailed of a check, or the error of the
\* suspended-asset precheck of another check that was rejected before.
\* Without enforcement nothing is rejected.
C6_ViolationRejects ==
  /\ (ENFORCE_SUSPENDED_ASSET /\ \E c \in Selected : ThresholdsViolated(c)) =>
       /\ orderState # "resolved"
       /\ (\E c \in Selected : ThresholdsViolated(c) /\ Settled(c)) => orderState = "rejected"
       /\ orderState = "rejected" =>
            \/ orderError.kind = "ValidationFailed"
            \/ /\ orderError.kind = "AssetSuspended"
               /\ checkError[orderError.check] = "AssetSuspended"
               /\ ~ThresholdsViolated(orderError.check)
  /\ ~ENFORCE_SUSPENDED_ASSET => (orderState # "rejected" /\ \A c \in CheckNames : pc[c] # "rejected")

\* an order rejected with the ValidationFailed error of a violating check
C6_Witness ==
  /\ ENFORCE_SUSPENDED_ASSET
  /\ orderState = "rejected"
  /\ orderError.kind = "ValidationFailed"
  /\ ThresholdsViolated(orderError.check)
  /\ pc[orderError.check] = "rejected"

\* C7: the checks started are the IP check iff the request has an ip, the
\* card check iff the payment method has card details, the user check iff
\* there is a remote user, the email check iff there is no remote user and
\* the order has a guest email; never both the user and the email check; with
\* none of these no check runs and the call resolves.
C7_ChecksSelected ==
  orderState # "init" =>
    LET hasIp == req.ip # <<>>
        hasCard == order.paymentMethod # <<>> /\ order.paymentMethod[1].creditCardInfo # <<>>
        hasUser == req.remoteUser # <<>>
        hasEmail == order.guestInfo # <<>> /\ order.guestInfo[1].email # <<>>
    IN /\ ("ip" \in Selected) <=> hasIp
       /\ ("card" \in Selected) <=> hasCard
       /\ ("user" \in Selected) <=> hasUser
       /\ ("email" \in Selected) <=> (~hasUser /\ hasEmail)
       /\ ~("user" \in Selected /\ "email" \in Selected)
       /\ Len(checks) = Cardinality(Selected)
       /\ \A c \in CheckNames : (pc[c] # "none") <=> (c \in Selected)
       /\ (~hasIp /\ ~hasCard /\ ~hasUser /\ ~hasEmail) =>
            (checks = <<>> /\ orderState = "resolved")

\* an order with a remote user and a guest email: the user check runs, the
\* email check does not
C7_Witness ==
  /\ orderState # "init"
  /\ req.remoteUser # <<>>
  /\ order.guestInfo # <<>>
  /\ "user" \in Selected
  /\ pc["email"] = "none"

\* C8: a check whose provider call failed is not handled as a threshold
\* violation (no suspension is written for it) and is rejected in either
\* enforcement mode, and the order with it.
C8_ProviderErrorPropagates ==
  \A c \in Selected :
    (caught[c] # 0 /\ queries[c][caught[c]].status = "threw") =>
      /\ createCalls[c] = <<>>
      /\ pc[c] # "resolved"
      /\ Settled(c) => orderState = "rejected"

\* C9: a check that caught a failure calls SuspendedAsset.create once, with
\* the asset of its subject: the user check through its handler alone, the
\* other checks through the default alone.
C9_OneSuspensionWrite ==
  \A c \in Selected :
    /\ caught[c] # 0 => createCalls[c] = <<options(c).assetParams>>
    /\ caught[c] = 0 => createCalls[c] = <<>>
    /\ "onFail" \in DOMAIN options(c) =>
         (defaultCreates(options(c)) = <<>> /\ Len(createCalls[c]) <= 1)

\* a violating user check that settled after its handler's write
C9_Witness ==
  /\ "user" \in Selected
  /\ ThresholdsViolated("user")
  /\ Settled("user")
  /\ onFailResult["user"] = "written"
  /\ createCalls["user"] = <<[type |-> "USER", fingerprint |-> <<"7">>]>>

\* C10: a check whose suspension write failed settles as it would have
\* otherwise: rejected with its ValidationFailed error under enforcement,
\* resolved without, and the store is left as it was.
C10_WriteFailureDoesNotReplaceOutcome ==
  \A c \in Selected :
    onFailResult[c] = "logged" =>
      /\ ENFORCE_SUSPENDED_ASSET => (pc[c] = "rejected" /\ checkError[c] = "ValidationFailed")
      /\ ~ENFORCE_SUSPENDED_ASSET => (pc[c] = "resolved" /\ checkError[c] = "none")
      /\ orderState = "rejected" => orderError.kind \in {"ValidationFailed", "AssetSuspended"}

\* under enforcement, the handler's write of the user check and the default
\* write of the IP check both failed and both checks rejected
C10_Witness ==
  /\ ENFORCE_SUSPENDED_ASSET
  /\ {"user", "ip"} \subseteq Selected
  /\ onFailResult["user"] = "logged" /\ pc["user"] = "rejected"
  /\ onFailResult["ip"] = "logged" /\ pc["ip"] = "rejected"
  /\ orderError.kind = "ValidationFailed"

\* C11: no check is cancelled.  A check whose thresholds are found violated
\* has called SuspendedAsset.create, and that suspension step runs to its end;
\* a check still running when the order has been rejected (by another check)
\* goes on until it settles.
C11_NoCancellation ==
  \A c \in CheckNames :
    /\ [](ThresholdsViolated(c) => createCalls[c] # <<>>)
    /\ ThresholdsViolated(c) ~> (onFailResult[c] \in {"written", "logged"})
    /\ (orderState = "rejected" /\ pc[c] \in {"preCheck", "stats", "onFail"}) ~> Settled(c)

\* the order was rejected by one check, and another check, which rejected
\* later, violated its thresholds and has its asset written
C11_Witness ==
  /\ orderState = "rejected"
  /\ \E c \in Selected :
       /\ c # orderError.check
       /\ ThresholdsViolated(c)
       /\ pc[c] = "rejected"
       /\ caught[c] # 0
       /\ onFailResult[c] = "written"
       /\ BagIn(options(c).assetParams, store)

SameLetter(x, y) == x = y \/ {x, y} = {"A", "a"} \/ {x, y} = {"B", "b"}
EqualIgnoringCase(e1, e2) ==
  Len(e1) = Len(e2) /\ \A i \in 1..Len(e1) : SameLetter(e1[i], e2[i])

\* C13: every address that differs from the order's email in letter case only
\* has the same (EMAIL_ADDRESS, fingerprint) key, and with enforcement a
\* suspension recorded for such an address stops the email check at its
\* precheck: no statistics query, and the check can only reject.
C13_EmailFingerprintIgnoresCase ==
  Selected = {"email"} =>
    \A other \in Emails :
      EqualIgnoringCase(other, order.guestInfo[1].email) =>
        /\ checkEmailOptions(other).assetParams = options("email").assetParams
        /\ (ENFORCE_SUSPENDED_ASSET /\ checkEmailOptions(other).assetParams \in suspendedBefore)
             => /\ queries["email"] = <<>>
                /\ pc["email"] \in {"preCheck", "rejected"}
                /\ pc["email"] = "rejected" => checkError["email"] = "AssetSuspended"

\* the order's email is written in another case than the suspended one, and
\* its check has been rejected by the precheck
C13_Witness ==
  /\ Selected = {"email"}
  /\ ENFORCE_SUSPENDED_ASSET
  /\ order.guestInfo[1].email = <<"A", "b">>
  /\ [type |-> AssetType.EMAIL_ADDRESS, fingerprint |-> <<"a", "b">>] \in suspendedBefore
  /\ pc["email"] = "rejected"
  /\ checkError["email"] = "AssetSuspended"
  /\ orderState = "rejected"

\* the fields the card fingerprint is derived from, each as an optional value
DerivedFields == {"name", "brand", "expMonth", "expYear", "funding"}
Derived(pm, f) ==
  IF f = "name" THEN <<pm.name>>
  ELSE IF f \in DOMAIN pm.creditCardInfo[1] THEN <<pm.creditCardInfo[1][f]>> ELSE <<>>
DiffFields(p, q) == {f \in DerivedFields : Derived(p, f) # Derived(q, f)}
HasToken(pm) ==
  "fingerprint" \in DOMAIN pm.creditCardInfo[1] /\ pm.creditCardInfo[1].fingerprint # <<>>
\* name-brand-expMonth-expYear-funding, the absent fields left out
DashJoin(pm) ==
  LET info == pm.creditCardInfo[1]
  IN pm.name
     \o (IF "brand" \in DOMAIN info THEN <<"-">> \o info.brand ELSE <<>>)
     \o <<"-">> \o toString(info.expMonth)
     \o <<"-">> \o toString(info.expYear)
     \o (IF "funding" \in DOMAIN info THEN <<"-">> \o info.funding ELSE <<>>)

\* C14: the card check's fingerprint is the card's fingerprint token when it
\* has one, else the "-" join of name, brand, expMonth, expYear and funding;
\* among cards without a token, equal derived fields give the same
\* fingerprint and a change of exactly one derived field gives another one.
\* The fingerprint is the one the suspension is written under.
C14_CardFingerprint ==
  Selected = {"card"} =>
    LET pm == order.paymentMethod[1]
        fp == options("card").assetParams.fingerprint
    IN /\ HasToken(pm) => fp = pm.creditCardInfo[1].fingerprint
       /\ ~HasToken(pm) => fp = DashJoin(pm)
       /\ \A i \in 1..Len(createCalls["card"]) :
            createCalls["card"][i] = [type |-> "CREDIT_CARD", fingerprint |-> fp]
       /\ ~HasToken(pm) =>
            \A other \in CardPms :
              ~HasToken(other) =>
                /\ DiffFields(pm, other) = {} => cardFingerprint(other) = fp
                /\ Cardinality(DiffFields(pm, other)) = 1 => cardFingerprint(other) # fp

\* a card without a usable token (an empty one) was suspended under its join
C14_Witness ==
  /\ Selected = {"card"}
  /\ order.paymentMethod[1].name = <<"J">>
  /\ DOMAIN order.paymentMethod[1].creditCardInfo[1]
       = {"brand", "expMonth", "expYear", "funding", "fingerprint"}
  /\ ~HasToken(order.paymentMethod[1])
  /\ createCalls["card"]
       = <<[type |-> "CREDIT_CARD",
            fingerprint |-> <<"J", "-", "v", "-", "3", "-", "3", "0", "-", "c">>]>>
  /\ onFailResult["card"] = "written"

\* the orders the claim counts: the user's non-deleted card orders in the interval
MatchingOrders ==
  {i \in 1..Len(ordersTable) :
     /\ ordersTable[i].CreatedByUserId = req.remoteUser[1].id
     /\ ~ordersTable[i].deleted
     /\ ordersTable[i].pmType = "creditcard"
     /\ ordersTable[i].age <= 1}

\* C15: every row the statistics provider returns has numberOfOrders equal to
\* the number of matching orders, errorRate equal to the fraction of them in
\* ERROR status and paymentMethodRate equal to the number of distinct
\* (name, expiry-year) pairs divided by the number of orders; all three are 0
\* when no order matches.
C15_StatsRowAsSpecified ==
  Selected = {"user"} =>
    \A k \in Returned("user") :
      LET stat == queries["user"][k].stat
          count == Cardinality(MatchingOrders)
          errors == Cardinality({i \in MatchingOrders : ordersTable[i].status = "ERROR"})
          pairs == {<<ordersTable[i].name, ordersTable[i].expYear>> : i \in MatchingOrders}
      IN /\ stat.numberOfOrders = count
         /\ stat.errorRate * count = errors * RateUnit
         /\ stat.paymentMethodRate * count = Cardinality(pairs) * RateUnit
         /\ count = 0 => stat.errorRate = 0 /\ stat.paymentMethodRate = 0

\* C16: with enforcement, a check issues its statistics queries only in the
\* step in which its precheck returns without rejecting; while the precheck
\* is pending there is no query, and a check rejected by its precheck has
\* issued no query and called no suspension write.
C16_PreCheckBeforeStats ==
  /\ [](ENFORCE_SUSPENDED_ASSET =>
          \A c \in Selected :
            /\ pc[c] = "preCheck" => queries[c] = <<>> /\ createCalls[c] = <<>>
            /\ checkError[c] = "AssetSuspended" =>
                 /\ queries[c] = <<>>
                 /\ createCalls[c] = <<>>
                 /\ caught[c] = 0
                 /\ onFailResult[c] = "none"
            /\ queries[c] # <<>> => options(c).assetParams \notin suspendedBefore)
  /\ [][ENFORCE_SUSPENDED_ASSET =>
          \A c \in CheckNames :
            (queries[c] = <<>> /\ queries'[c] # <<>>) =>
              /\ pc[c] = "preCheck"
              /\ ~assertAssetIsNotSuspendedRejects(store, options(c).assetParams)]_vars

\* one check was stopped by its precheck while another one, whose precheck
\* passed, has its statistics queries out
C16_Witness ==
  /\ ENFORCE_SUSPENDED_ASSET
  /\ \E c \in Selected, d \in Selected :
       /\ checkError[c] = "AssetSuspended"
       /\ pc[c] = "rejected"
       /\ queries[c] = <<>>
       /\ queries[d] # <<>>
       /\ options(d).assetParams \notin suspendedBefore

\* C17: a check whose thresholds are violated is either still waiting for its
\* suspension step or has settled after that step finished (written, or
\* failed and logged); it settles as rejected with enforcement and as
\* resolved without, and no suspension step is pending in a settled check.
C17_SuspensionAwaitedBeforeSettling ==
  \A c \in Selected :
    /\ ThresholdsViolated(c) =>
         \/ pc[c] = "onFail" /\ onFailResult[c] = "pending"
         \/ /\ onFailResult[c] \in {"written", "logged"}
            /\ pc[c] = (IF ENFORCE_SUSPENDED_ASSET THEN "rejected" ELSE "resolved")
    /\ Settled(c) => onFailResult[c] # "pending"

\* violating checks that have settled after their suspension was written,
\* one rejected under enforcement
C17_Witness ==
  \E c \in Selected :
    /\ ThresholdsViolated(c)
    /\ ENFORCE_SUSPENDED_ASSET
    /\ pc[c] = "rejected"
    /\ checkError[c] = "ValidationFailed"
    /\ onFailResult[c] = "written"
    /\ BagIn(options(c).assetParams, store)

\* C18 as stated: when the order has rejected or resolved, every selected
\* check has finished and every violating subject's suspension step is done.
C18_DecidesAfterAllChecksComplete ==
  orderState \in {"resolved", "rejected"} =>
    \A c \in Selected :
      /\ Settled(c)
      /\ ThresholdsViolated(c) => onFailResult[c] \in {"written", "logged"}

\* C18, amended: the order resolves only when every selected check has
\* resolved, each violating one after its suspension step; it rejects as soon
\* as one check has rejected, so while it is undecided no check has rejected,
\* and a rejected order may have checks that are still running.
C18_ResolvesAfterAllRejectsAtFirst ==
  /\ orderState = "resolved" =>
       \A c \in Selected :
         /\ pc[c] = "resolved"
         /\ ThresholdsViolated(c) => onFailResult[c] \in {"written", "logged"}
  /\ orderState = "rejected" => \E c \in Selected : pc[c] = "rejected"
  /\ orderState = "pending" =>
       /\ \A c \in Selected : pc[c] # "rejected"
       /\ \E c \in Selected : ~Settled(c)

\* the order has rejected while a violating check still waits for its
\* suspension write
C18_Witness ==
  /\ orderState = "rejected"
  /\ \E c \in Selected :
       /\ c # orderError.check
       /\ ThresholdsViolated(c)
       /\ pc[c] = "onFail"
       /\ onFailResult[c] = "pending"

\* C19: the error the order rejects with is the error of the check that
\* rejected first in time: the step in which the first check rejects rejects
\* the order with that check's error, a later rejection changes neither the
\* order's state nor its error, and this whatever the checks' places in the
\* list.
C19_FirstRejectionInTimeIsReported ==
  /\ [][\A c \in CheckNames :
          (pc[c] # "rejected" /\ pc'[c] = "rejected") =>
            IF \A d \in Selected : pc[d] # "rejected"
            THEN /\ orderState' = "rejected"
                 /\ orderError' = [check |-> c, kind |-> checkError'[c]]
            ELSE /\ orderState' = orderState
                 /\ orderError' = orderError]_vars
  /\ [](orderState = "rejected" =>
          /\ orderError.check \in Selected
          /\ pc[orderError.check] = "rejected"
          /\ orderError.kind = checkError[orderError.check])

\* two checks have rejected under enforcement, and the one whose error the
\* order reports comes later in the list than the other
C19_Witness ==
  /\ ENFORCE_SUSPENDED_ASSET
  /\ orderState = "rejected"
  /\ \E i \in 1..Len(checks), j \in 1..Len(checks) :
       /\ i < j
       /\ checks[j] = orderError.check
       /\ pc[checks[i]] = "rejected"
       /\ pc[checks[j]] = "rejected"
       /\ checkError[checks[i]] = "ValidationFailed"

\* C20: a check calls SuspendedAsset.create for its subject, and the store
\* gains the subject's record, only if a statistics row returned for the
\* subject met all three limits of one of its rules.
C20_SuspendedOnlyWhenSomeRuleViolated ==
  \A c \in Selected :
    (\/ createCalls[c] # <<>>
     \/ (BagIn(options(c).assetParams, store)
         /\ options(c).assetParams \notin suspendedBefore))
    => \E k \in Returned(c) : Violates(queries[c][k].stat, limitParamsOf(c)[k])

\* C21: without enforcement no check looks its asset up in the store: no
\* check waits at a precheck or is rejected, each check with rules has its
\* statistics queried whether its subject is suspended or not, a suspended
\* subject that violates a rule has SuspendedAsset.create called again, and
\* the order resolves once its checks are through.
C21_DisabledNeverConsultsStore ==
  ~ENFORCE_SUSPENDED_ASSET =>
    /\ orderState # "rejected"
    /\ ~(orderState = "pending" /\ \A c \in Selected : Settled(c))
    /\ \A c \in Selected :
         /\ pc[c] \notin {"preCheck", "rejected"}
         /\ checkError[c] = "none"
         /\ Len(queries[c]) = Len(limitParamsOf(c))
         /\ ThresholdsViolated(c) => createCalls[c] = <<options(c).assetParams>>

\* every subject of the order was suspended before; one violated its rule
\* again and was written again, another violated nothing, the order resolved
C21_Witness ==
  /\ ~ENFORCE_SUSPENDED_ASSET
  /\ orderState = "resolved"
  /\ \A c \in Selected : options(c).assetParams \in suspendedBefore
  /\ \E c \in Selected, d \in Selected :
       /\ ThresholdsViolated(c)
       /\ createCalls[c] = <<options(c).assetParams>>
       /\ onFailResult[c] = "written"
       /\ Returned(d) # {}
       /\ ~ThresholdsViolated(d)
       /\ caught[d] = 0
       /\ createCalls[d] = <<>>

\* the one record each check may write
OwnKey(c) ==
  CASE c = "ip" -> [type |-> "IP", fingerprint |-> req.ip]
    [] c = "card" -> [type |-> "CREDIT_CARD",
                      fingerprint |-> cardFingerprint(order.paymentMethod[1])]
    [] c = "user" -> [type |-> "USER", fingerprint |-> toString(req.remoteUser[1].id)]
    [] c = "email" -> [type |-> "EMAIL_ADDRESS",
                       fingerprint |-> toLower(order.guestInfo[1].email)]

\* C22: no step removes a record or changes the count of one that stays, and
\* a record that appears in the store is the own key of a check that failed
\* and whose suspension step completes in that step; so every record in the
\* store was there before the order or is the key of a failed check.
C22_FailingCheckWritesOnlyItsOwnKey ==
  /\ [][/\ \A a \in BagToSet(store) : CopiesIn(a, store') >= CopiesIn(a, store)
        /\ \A a \in BagToSet(store') :
             CopiesIn(a, store') > CopiesIn(a, store) =>
               \E c \in Selected :
                 /\ a = OwnKey(c)
                 /\ caught[c] # 0
                 /\ onFailResult[c] = "pending"
                 /\ onFailResult'[c] = "written"]_vars
  /\ [](/\ \A a \in BagToSet(store) :
             a \in suspendedBefore \/ \E c \in Selected : a = OwnKey(c) /\ caught[c] # 0
        /\ suspendedBefore \subseteq BagToSet(store)
        /\ \A c \in Selected :
             \A i \in 1..Len(createCalls[c]) : createCalls[c][i] = OwnKey(c))

\* the user check failed and wrote (USER, "7") while the IP of the same order,
\* whose check did not fail, keeps no record, and the card's earlier record
\* is still there
C22_Witness ==
  /\ {"ip", "card", "user"} \subseteq Selected
  /\ caught["user"] # 0
  /\ onFailResult["user"] = "written"
  /\ [type |-> "USER", fingerprint |-> <<"7">>] \notin suspendedBefore
  /\ BagIn([type |-> "USER", fingerprint |-> <<"7">>], store)
  /\ Settled("ip")
  /\ caught["ip"] = 0
  /\ ~BagIn([type |-> "IP", fingerprint |-> req.ip], store)
  /\ OwnKey("card") \in suspendedBefore
  /\ BagIn(OwnKey("card"), store)
  /\ caught["card"] = 0
  /\ Settled("card")

\* the rows of a table that satisfy a condition, as row indexes
Indexes(rows, Test(_)) == {j \in 1..Len(rows) : Test(rows[j])}

\* what a loader is to return for one key, read off the tables
ExpectedFor(key) ==
  CASE loaded.loader = "Collective.host" ->
         LET ofKey(r) == r.id = key
         IN IF Indexes(db.collectives, ofKey) = {} THEN <<>>
            ELSE db.collectives[CHOOSE j \in Indexes(db.collectives, ofKey) : TRUE].host
    [] loaded.loader = "Tier.availableQuantity" ->
         LET ofKey(r) == r.id = key /\ r.maxQuantity # <<>>
             taken(o) == o.TierId = key /\ o.processed /\ o.status \notin NotCounted
             left == db.tiers[CHOOSE j \in Indexes(db.tiers, ofKey) : TRUE].maxQuantity[1]
                     - SUM(db.orders, "quantity", Indexes(db.orders, taken))
         IN IF Indexes(db.tiers, ofKey) = {} THEN <<>>
            ELSE <<IF left > 0 THEN left ELSE 0>>
    [] loaded.loader = "Tier.contributorsStats" ->
         LET ofKey(r) == r.TierId = key
             users(r) == r.TierId = key /\ r.type = "USER"
             organizations(r) == r.TierId = key /\ r.type = "ORGANIZATION"
         IN [id |-> key,
             all |-> Cardinality(Indexes(db.members, ofKey)),
             USER |-> Cardinality(Indexes(db.members, users)),
             ORGANIZATION |-> Cardinality(Indexes(db.members, organizations)),
             COLLECTIVE |-> 0]
    [] loaded.loader = "Transaction.directDonationsFromTo" ->
         LET ofKey(r) == /\ r.FromCollectiveId = key.FromCollectiveId
                         /\ r.CollectiveId = key.CollectiveId
                         /\ r.type = "CREDIT"
         IN SUM(db.transactions, "amount", Indexes(db.transactions, ofKey))
    [] loaded.loader = "Transaction.totalAmountDonatedFromTo" ->
         LET ofKey(r) == /\ \/ r.FromCollectiveId = key.FromCollectiveId
                            \/ r.UsingGiftCardFromCollectiveId = key.FromCollectiveId
                         /\ r.CollectiveId = key.CollectiveId
                         /\ r.type = "CREDIT"
                         /\ ~r.refunded
         IN SUM(db.transactions, "amount", Indexes(db.transactions, ofKey))

\* C23: the array a batch function returns is as long as the array of keys,
\* and its i-th element is the aggregate of the rows of the i-th key, or the
\* loader's default (null, 0, zeroed stats) when the key has no row.
C23_BatchResultsMatchKeys ==
  loaded.loader # "none" =>
    /\ Len(loaded.result) = Len(loaded.keys)
    /\ \A i \in 1..Len(loaded.keys) : loaded.result[i] = ExpectedFor(loaded.keys[i])

====
